---- MODULE Spec2Model ----
(***************************************************************************)
(* A model of src/types/opt/bool.go: the optional boolean opt.Bool (a     *)
(* string-backed tri-state value with JSON and database/sql decoding) and *)
(* the Windows host information probes osVersionWindows (cached in        *)
(* winVerCache) and packageTypeWindows.                                   *)
(***************************************************************************)
EXTENDS Integers, Sequences, FiniteSets, TLC

VARIABLES
    b,            \* the opt.Bool value under test (type Bool string)
    last,         \* the last Bool method call: [op, arg, pre, ret, err, after]
    wire,         \* the bytes the last MarshalJSON produced, and from which content
    sysVer,       \* what windows.RtlGetNtVersionNumbers reports
    reg,          \* the UBR value under ...\Windows NT\CurrentVersion
    winVerCache,  \* var winVerCache syncs.AtomicValue[string]
    pc,           \* where each caller of osVersionWindows is
    s,            \* each caller's local s
    missed,       \* whether each caller's LoadOk missed the cache
    startedAfter, \* whether each caller's call began after firstRet was set
    firstRet,     \* the first string a call computed and returned
    lastRet,      \* the last return of osVersionWindows
    stores,       \* the strings stored into winVerCache, in order
    missRets,     \* the strings returned by the callers that missed the cache
    files,        \* the paths that exist in the file system
    regMSI,       \* the MSI value of the Tailscale registry key
    exe,          \* what os.Executable returns
    pkgLast       \* the last call of packageTypeWindows and what it saw

boolVars == <<b, last, wire>>

verVars == <<sysVer, reg, winVerCache, pc, s, missed, startedAfter, firstRet,
             lastRet, stores, missRets>>

pkgVars == <<files, regMSI, exe, pkgLast>>

vars == <<boolVars, verVars, pkgVars>>

----------------------------------------------------------------------------
(* Bounds of the model.                                                    *)

\* int64 arguments of Scan range over -MaxInt64Arg .. MaxInt64Arg
MaxInt64Arg == 2

\* the number of goroutines that call osVersionWindows
NumCallers == 2

----------------------------------------------------------------------------
(* Values.                                                                 *)

\* A Go nil error.
NilErr == <<>>

\* A nil []byte: it has no bytes.
NilBytes == ""

\* The absence of a recorded value.
None == "<none>"

\* type Bool string: the contents the type documents ...
ValidContents == {"true", "false", "", "unset"}

\* ... and the contents a plain string conversion can also give it.
BoolContents == ValidContents \cup {"maybe", "TRUE", "null"}

\* Byte sequences handed to UnmarshalJSON.
JSONInputs == {"true", "false", "null", "\"yes\"", "1", "", "unset", "TRUE"}

\* Arguments handed to Scan (src any): a dynamic type and a value.
ScanSrcs ==
    {[type |-> "nil", val |-> "nil"]}
    \cup {[type |-> "bool", val |-> v] : v \in BOOLEAN}
    \cup {[type |-> "int64", val |-> n] : n \in (-MaxInt64Arg)..MaxInt64Arg}
    \cup {[type |-> "int", val |-> n] : n \in {0, 1}}
    \cup {[type |-> "string", val |-> str] : str \in {"hello", "true"}}
    \cup {[type |-> "float64", val |-> "1.0"]}

----------------------------------------------------------------------------
(* opt.Bool: the methods as functions of the receiver and the arguments.   *)

\* strconv.FormatBool
FormatBool(v) == IF v THEN "true" ELSE "false"

\* Set as it would be if false were stored as the empty string.
SetTo_FalseAsEmpty(v) == IF v THEN "true" ELSE ""

\* func (b *Bool) Set(v bool): the new content
SetTo(v) == FormatBool(v)

\* func (b *Bool) Clear(): the new content
ClearTo == ""

\* func (b Bool) Get() (v bool, ok bool)
Get(c) ==
    CASE c = "true" -> <<TRUE, TRUE>>
      [] c = "false" -> <<FALSE, TRUE>>
      [] OTHER -> <<FALSE, FALSE>>

\* func (b Bool) EqualBool(v bool) bool
EqualBool(c, v) ==
    LET g == Get(c)
    IN  g[2] /\ g[1] = v

\* Scan as it would be if only positive integers counted as true.
ScanOf_PositiveOnly(c, src) ==
    IF src.type = "nil" THEN [b |-> "", err |-> NilErr]
    ELSE CASE src.type = "bool" ->
                 IF src.val THEN [b |-> "true", err |-> NilErr]
                            ELSE [b |-> "false", err |-> NilErr]
           [] src.type = "int64" ->
                 IF src.val > 0 THEN [b |-> "true", err |-> NilErr]
                                ELSE [b |-> "false", err |-> NilErr]
           [] OTHER ->
                 [b |-> c,
                  err |-> <<"opt.Bool.Scan: invalid type %T: %v", src>>]

\* Scan as it would be if it cleared the value before looking at the type.
ScanOf_ClearFirst(c, src) ==
    IF src.type = "nil" THEN [b |-> "", err |-> NilErr]
    ELSE CASE src.type = "bool" ->
                 IF src.val THEN [b |-> "true", err |-> NilErr]
                            ELSE [b |-> "false", err |-> NilErr]
           [] src.type = "int64" ->
                 IF src.val = 0 THEN [b |-> "false", err |-> NilErr]
                                ELSE [b |-> "true", err |-> NilErr]
           [] OTHER ->
                 [b |-> "",
                  err |-> <<"opt.Bool.Scan: invalid type %T: %v", src>>]

\* func (b *Bool) Scan(src any) error: the content afterwards and the error
ScanOf(c, src) ==
    IF src.type = "nil" THEN [b |-> "", err |-> NilErr]
    ELSE CASE src.type = "bool" ->
                 IF src.val THEN [b |-> "true", err |-> NilErr]
                            ELSE [b |-> "false", err |-> NilErr]
           [] src.type = "int64" ->
                 IF src.val = 0 THEN [b |-> "false", err |-> NilErr]
                                ELSE [b |-> "true", err |-> NilErr]
           [] OTHER ->
                 [b |-> c,
                  err |-> <<"opt.Bool.Scan: invalid type %T: %v", src>>]

\* MarshalJSON as it would be without the "unset" synonym.
MarshalJSONOf_NoUnset(c) ==
    CASE c = "true" -> [data |-> "true", err |-> NilErr]
      [] c = "false" -> [data |-> "false", err |-> NilErr]
      [] c = "" -> [data |-> "null", err |-> NilErr]
      [] OTHER -> [data |-> NilBytes,
                   err |-> <<"invalid opt.Bool value %q", c>>]

\* func (b Bool) MarshalJSON() ([]byte, error)
MarshalJSONOf(c) ==
    CASE c = "true" -> [data |-> "true", err |-> NilErr]
      [] c = "false" -> [data |-> "false", err |-> NilErr]
      [] c \in {"", "unset"} -> [data |-> "null", err |-> NilErr]
      [] OTHER -> [data |-> NilBytes,
                   err |-> <<"invalid opt.Bool value %q", c>>]

\* UnmarshalJSON as it would be if null left the value as it was.
UnmarshalJSONOf_NullKeeps(c, j) ==
    IF j = "true" THEN [b |-> "true", err |-> NilErr]
    ELSE IF j = "false" THEN [b |-> "false", err |-> NilErr]
    ELSE IF j = "null" THEN [b |-> c, err |-> NilErr]
    ELSE [b |-> c, err |-> <<"invalid opt.Bool value %q", j>>]

\* UnmarshalJSON as it would be if null cleared the value to the empty string.
UnmarshalJSONOf_NullEmpty(c, j) ==
    IF j = "true" THEN [b |-> "true", err |-> NilErr]
    ELSE IF j = "false" THEN [b |-> "false", err |-> NilErr]
    ELSE IF j = "null" THEN [b |-> "", err |-> NilErr]
    ELSE [b |-> c, err |-> <<"invalid opt.Bool value %q", j>>]

\* UnmarshalJSON as it would be if it stored the input before validating it.
UnmarshalJSONOf_StoresInput(c, j) ==
    IF j = "true" THEN [b |-> "true", err |-> NilErr]
    ELSE IF j = "false" THEN [b |-> "false", err |-> NilErr]
    ELSE IF j = "null" THEN [b |-> "unset", err |-> NilErr]
    ELSE [b |-> j, err |-> <<"invalid opt.Bool value %q", j>>]

\* func (b *Bool) UnmarshalJSON(j []byte) error: the content afterwards and
\* the error
UnmarshalJSONOf(c, j) ==
    IF j = "true" THEN [b |-> "true", err |-> NilErr]
    ELSE IF j = "false" THEN [b |-> "false", err |-> NilErr]
    ELSE IF j = "null" THEN [b |-> "unset", err |-> NilErr]
    ELSE [b |-> c, err |-> <<"invalid opt.Bool value %q", j>>]

----------------------------------------------------------------------------
(* opt.Bool: the state machine of one value and its callers.               *)

\* What is remembered of the call before the last one.
Earlier(call) == [op |-> call.op, arg |-> call.arg, pre |-> call.pre, err |-> call.err]

NoCall ==
    [op |-> "none", arg |-> None, pre |-> None, ret |-> None, err |-> NilErr,
     after |-> [op |-> "none", arg |-> None, pre |-> None, err |-> NilErr]]

NoWire == [data |-> None, from |-> None, err |-> NilErr]

\* var b opt.Bool: the zero value
InitBool ==
    /\ b = ""
    /\ last = NoCall
    /\ wire = NoWire

\* b := opt.Bool(s): any string converts to a Bool
InitBoolAny ==
    /\ b \in BoolContents
    /\ last = NoCall
    /\ wire = NoWire

Set(v) ==
    /\ b' = SetTo(v)
    /\ last' = [op |-> "Set", arg |-> v, pre |-> b, ret |-> None, err |-> NilErr,
                after |-> Earlier(last)]
    /\ UNCHANGED <<wire, verVars, pkgVars>>

Clear ==
    /\ b' = ClearTo
    /\ last' = [op |-> "Clear", arg |-> None, pre |-> b, ret |-> None, err |-> NilErr,
                after |-> Earlier(last)]
    /\ UNCHANGED <<wire, verVars, pkgVars>>

DoGet ==
    /\ last' = [op |-> "Get", arg |-> None, pre |-> b, ret |-> Get(b), err |-> NilErr,
                after |-> Earlier(last)]
    /\ UNCHANGED <<b, wire, verVars, pkgVars>>

DoEqualBool(v) ==
    /\ last' = [op |-> "EqualBool", arg |-> v, pre |-> b,
                ret |-> EqualBool(b, v), err |-> NilErr,
                after |-> Earlier(last)]
    /\ UNCHANGED <<b, wire, verVars, pkgVars>>

Scan(src) ==
    LET r == ScanOf(b, src)
    IN  /\ b' = r.b
        /\ last' = [op |-> "Scan", arg |-> src, pre |-> b, ret |-> None,
                    err |-> r.err,
                    after |-> Earlier(last)]
        /\ UNCHANGED <<wire, verVars, pkgVars>>

MarshalJSON ==
    LET r == MarshalJSONOf(b)
    IN  /\ last' = [op |-> "MarshalJSON", arg |-> None, pre |-> b,
                    ret |-> r.data, err |-> r.err, after |-> Earlier(last)]
        /\ wire' = [data |-> r.data, from |-> b, err |-> r.err]
        /\ UNCHANGED <<b, verVars, pkgVars>>

\* UnmarshalJSON of bytes from anywhere
UnmarshalJSON(j) ==
    LET r == UnmarshalJSONOf(b, j)
    IN  /\ b' = r.b
        /\ last' = [op |-> "UnmarshalJSON", arg |-> j, pre |-> b,
                    ret |-> None, err |-> r.err, after |-> Earlier(last)]
        /\ UNCHANGED <<wire, verVars, pkgVars>>

\* UnmarshalJSON of the bytes MarshalJSON produced: the round trip
UnmarshalWire ==
    /\ wire.data # None
    /\ LET r == UnmarshalJSONOf(b, wire.data)
       IN  /\ b' = r.b
           /\ last' = [op |-> "UnmarshalWire", arg |-> wire.data, pre |-> b,
                       ret |-> None, err |-> r.err, after |-> Earlier(last)]
    /\ UNCHANGED <<wire, verVars, pkgVars>>

NextBool ==
    \/ \E v \in BOOLEAN : Set(v)
    \/ Clear
    \/ DoGet
    \/ \E v \in BOOLEAN : DoEqualBool(v)
    \/ \E src \in ScanSrcs : Scan(src)
    \/ MarshalJSON
    \/ \E j \in JSONInputs : UnmarshalJSON(j)
    \/ UnmarshalWire

----------------------------------------------------------------------------
(* hostinfo: the version probe.                                            *)

Callers == 1..NumCallers

\* What windows.RtlGetNtVersionNumbers can report: Windows 7 (6.1) and
\* Windows 10 and 11 (10.0) builds.
SysVers ==
    {[major |-> 6, minor |-> 1, build |-> 7601]}
    \cup {[major |-> 10, minor |-> 0, build |-> n] : n \in {19041, 22000}}

\* The states of the UBR registry value: the key does not open, the value
\* is missing, it is not a DWORD, or it is a DWORD.
RegStates ==
    {[openErr |-> TRUE, present |-> FALSE, type |-> "NONE", val |-> 0],
     [openErr |-> FALSE, present |-> FALSE, type |-> "NONE", val |-> 0],
     [openErr |-> FALSE, present |-> TRUE, type |-> "QWORD", val |-> 388]}
    \cup {[openErr |-> FALSE, present |-> TRUE, type |-> "DWORD", val |-> n] :
              n \in {388, 1151}}

Digits == <<"0", "1", "2", "3", "4", "5", "6", "7", "8", "9">>

\* fmt's %d of an unsigned integer
RECURSIVE FormatUint(_)
FormatUint(n) ==
    IF n < 10 THEN Digits[n + 1]
    ELSE FormatUint(n \div 10) \o Digits[(n % 10) + 1]

\* fmt.Sprintf("%d.%d.%d", major, minor, build)
SprintfVersion(major, minor, build) ==
    FormatUint(major) \o "." \o FormatUint(minor) \o "." \o FormatUint(build)

\* fmt.Sprintf(".%d", ubr)
SprintfUBR(ubr) == "." \o FormatUint(ubr)

\* func getUBR() (uint32, error). A DWORD is below 2^32, so uint32(val)
\* is val.
getUBR(r) ==
    IF r.openErr THEN [ubr |-> 0, err |-> <<"registry.OpenKey">>]
    ELSE IF ~r.present THEN [ubr |-> 0, err |-> <<"key.GetIntegerValue">>]
    ELSE IF r.type # "DWORD" THEN [ubr |-> 0, err |-> <<"registry.ErrUnexpectedType">>]
    ELSE [ubr |-> r.val, err |-> NilErr]

NoReturn == [caller |-> 0, s |-> None, missed |-> FALSE, after |-> FALSE]

\* var winVerCache syncs.AtomicValue[string]: nothing stored, no caller
VerIdle ==
    /\ winVerCache = [ok |-> FALSE, v |-> ""]
    /\ pc = [p \in Callers |-> "idle"]
    /\ s = [p \in Callers |-> ""]
    /\ missed = [p \in Callers |-> FALSE]
    /\ startedAfter = [p \in Callers |-> FALSE]
    /\ firstRet = None
    /\ lastRet = NoReturn
    /\ stores = <<>>
    /\ missRets = {}

\* The process starts on any system.
InitVer ==
    /\ sysVer \in SysVers
    /\ reg \in RegStates
    /\ VerIdle

\* if s, ok := winVerCache.LoadOk(); ok { return s }
LoadOk(p) ==
    /\ pc[p] = "idle"
    /\ missed' = [missed EXCEPT ![p] = ~winVerCache.ok]
    /\ startedAfter' = [startedAfter EXCEPT ![p] = (firstRet # None)]
    /\ IF winVerCache.ok
       THEN /\ s' = [s EXCEPT ![p] = winVerCache.v]
            /\ pc' = [pc EXCEPT ![p] = "return"]
       ELSE /\ pc' = [pc EXCEPT ![p] = "rtl"]
            /\ UNCHANGED s
    /\ UNCHANGED <<sysVer, reg, winVerCache, firstRet, lastRet, stores, missRets>>
    /\ UNCHANGED <<boolVars, pkgVars>>

\* major, minor, build := windows.RtlGetNtVersionNumbers()
\* s := fmt.Sprintf("%d.%d.%d", major, minor, build)
RtlGetNtVersionNumbers(p) ==
    /\ pc[p] = "rtl"
    /\ s' = [s EXCEPT ![p] = SprintfVersion(sysVer.major, sysVer.minor, sysVer.build)]
    /\ pc' = [pc EXCEPT ![p] = IF sysVer.major = 10 THEN "ubr" ELSE "store"]
    /\ UNCHANGED <<sysVer, reg, winVerCache, missed, startedAfter, firstRet,
                   lastRet, stores, missRets>>
    /\ UNCHANGED <<boolVars, pkgVars>>

\* if ubr, err := getUBR(); err == nil { s += fmt.Sprintf(".%d", ubr) }
AppendUBR(p) ==
    /\ pc[p] = "ubr"
    /\ LET r == getUBR(reg)
       IN  s' = [s EXCEPT ![p] = IF r.err = NilErr THEN s[p] \o SprintfUBR(r.ubr)
                                                   ELSE s[p]]
    /\ pc' = [pc EXCEPT ![p] = "store"]
    /\ UNCHANGED <<sysVer, reg, winVerCache, missed, startedAfter, firstRet,
                   lastRet, stores, missRets>>
    /\ UNCHANGED <<boolVars, pkgVars>>

\* if s != "" { winVerCache.Store(s) }
Store(p) ==
    /\ pc[p] = "store"
    /\ IF s[p] # ""
       THEN /\ winVerCache' = [ok |-> TRUE, v |-> s[p]]
            /\ stores' = Append(stores, s[p])
       ELSE UNCHANGED <<winVerCache, stores>>
    /\ pc' = [pc EXCEPT ![p] = "return"]
    /\ UNCHANGED <<sysVer, reg, s, missed, startedAfter, firstRet, lastRet, missRets>>
    /\ UNCHANGED <<boolVars, pkgVars>>

\* return s
Return(p) ==
    /\ pc[p] = "return"
    /\ lastRet' = [caller |-> p, s |-> s[p], missed |-> missed[p],
                   after |-> startedAfter[p]]
    /\ firstRet' = IF firstRet = None /\ missed[p] /\ s[p] # "" THEN s[p] ELSE firstRet
    /\ missRets' = IF missed[p] THEN missRets \cup {s[p]} ELSE missRets
    /\ pc' = [pc EXCEPT ![p] = "idle"]
    /\ s' = [s EXCEPT ![p] = ""]
    /\ UNCHANGED <<sysVer, reg, winVerCache, missed, startedAfter, stores>>
    /\ UNCHANGED <<boolVars, pkgVars>>

\* The system changes under the process: a servicing update (a hotpatch)
\* rewrites UBR, or the value is removed or made unreadable. The kernel's
\* version numbers are fixed while the process runs.
SystemChange ==
    /\ reg' \in RegStates \ {reg}
    /\ UNCHANGED <<sysVer, winVerCache, pc, s, missed, startedAfter, firstRet,
                   lastRet, stores, missRets>>
    /\ UNCHANGED <<boolVars, pkgVars>>

NextVer ==
    \/ \E p \in Callers : LoadOk(p)
    \/ \E p \in Callers : RtlGetNtVersionNumbers(p)
    \/ \E p \in Callers : AppendUBR(p)
    \/ \E p \in Callers : Store(p)
    \/ \E p \in Callers : Return(p)
    \/ SystemChange

----------------------------------------------------------------------------
(* hostinfo: the package-origin probe.                                     *)

\* `C:\ProgramData\chocolatey\lib\tailscale`, as its path elements
ChocoPath == <<"C:", "ProgramData", "chocolatey", "lib", "tailscale">>

\* Where the running binary can be.
ExePaths ==
    {<<"C:", "Program Files", "Tailscale", "tailscaled.exe">>,
     <<"C:", "src", "tailscaled.exe">>}

\* filepath.Dir
Dir(path) == SubSeq(path, 1, Len(path) - 1)

\* filepath.Join(dir, name)
Join(dir, name) == Append(dir, name)

\* The paths the probe can look at.
ProbedPaths ==
    {ChocoPath} \cup {Join(Dir(e), "Uninstall-Tailscale.exe") : e \in ExePaths}

\* The states of the MSI registry value: missing, or an integer.
MSIStates ==
    {[present |-> FALSE, val |-> 0]} \cup {[present |-> TRUE, val |-> n] : n \in 0..2}

\* What os.Executable can return.
ExeStates ==
    {[path |-> <<>>, err |-> <<"os.Executable">>]}
    \cup {[path |-> e, err |-> NilErr] : e \in ExePaths}

\* os.Stat(path): the error
Stat(fs, path) == IF path \in fs THEN NilErr ELSE <<"os.ErrNotExist">>

\* winutil.GetRegInteger(name, defval)
GetRegInteger(r, defval) == IF r.present THEN r.val ELSE defval

\* packageTypeWindows as it would be with the MSI sentinel looked at first.
packageTypeOf_MSIFirst(fs, r, e) ==
    IF GetRegInteger(r, 0) = 1 THEN "msi"
    ELSE IF Stat(fs, ChocoPath) = NilErr THEN "choco"
    ELSE IF e.err # NilErr THEN ""
    ELSE IF Stat(fs, Join(Dir(e.path), "Uninstall-Tailscale.exe")) = NilErr THEN "nsis"
    ELSE ""

\* func packageTypeWindows() string
packageTypeOf(fs, r, e) ==
    IF Stat(fs, ChocoPath) = NilErr THEN "choco"
    ELSE IF GetRegInteger(r, 0) = 1 THEN "msi"
    ELSE IF e.err # NilErr THEN ""
    ELSE IF Stat(fs, Join(Dir(e.path), "Uninstall-Tailscale.exe")) = NilErr THEN "nsis"
    ELSE ""

NoPkgCall == [called |-> FALSE, ret |-> None, files |-> {}, regMSI |-> None, exe |-> None]

InitPkg ==
    /\ files \in SUBSET ProbedPaths
    /\ regMSI \in MSIStates
    /\ exe \in ExeStates
    /\ pkgLast = NoPkgCall

packageTypeWindows ==
    /\ pkgLast' = [called |-> TRUE, ret |-> packageTypeOf(files, regMSI, exe),
                   files |-> files, regMSI |-> regMSI, exe |-> exe]
    /\ UNCHANGED <<files, regMSI, exe, boolVars, verVars>>

\* The machine changes between calls: a package is installed or removed,
\* the binary is started from somewhere else.
MachineChange ==
    /\ \/ \E path \in ProbedPaths :
              /\ files' = IF path \in files THEN files \ {path} ELSE files \cup {path}
              /\ UNCHANGED <<regMSI, exe>>
       \/ regMSI' \in MSIStates \ {regMSI} /\ UNCHANGED <<files, exe>>
       \/ exe' \in ExeStates \ {exe} /\ UNCHANGED <<files, regMSI>>
    /\ UNCHANGED <<pkgLast, boolVars, verVars>>

NextPkg ==
    \/ packageTypeWindows
    \/ MachineChange

----------------------------------------------------------------------------
(* The specifications.                                                     *)

\* The version probe at rest on one machine.
VerAtRest ==
    /\ VerIdle
    /\ sysVer = [major |-> 10, minor |-> 0, build |-> 19041]
    /\ reg = [openErr |-> FALSE, present |-> TRUE, type |-> "DWORD", val |-> 388]

\* The package probe at rest on one machine.
PkgAtRest ==
    /\ files = {}
    /\ regMSI = [present |-> FALSE, val |-> 0]
    /\ exe = [path |-> <<>>, err |-> <<"os.Executable">>]
    /\ pkgLast = NoPkgCall

\* A Bool that starts as the zero value and is only changed by its methods.
InitZero == InitBool /\ VerAtRest /\ PkgAtRest

Spec == InitZero /\ [][NextBool]_vars

\* A Bool that starts with any string content.
InitAny == InitBoolAny /\ VerAtRest /\ PkgAtRest

SpecAny == InitAny /\ [][NextBool]_vars

\* Concurrent callers of osVersionWindows on a system that can change.
InitVersion == InitBool /\ InitVer /\ PkgAtRest

SpecVer == InitVersion /\ [][NextVer]_vars

\* Calls of packageTypeWindows on a machine that can change.
InitPackage == InitBool /\ VerAtRest /\ InitPkg

SpecPkg == InitPackage /\ [][NextPkg]_vars

----------------------------------------------------------------------------
(* opt.Bool: the properties.                                               *)

IsUnmarshal(call) == call.op \in {"UnmarshalJSON", "UnmarshalWire"}

\* C1: for every content v of "true", "false", "" and "unset", MarshalJSON
\* succeeds, and UnmarshalJSON of the bytes it produced succeeds and leaves
\* a Bool whose Get() equals Get() of v, whatever the Bool held before.
C1_RoundTrip ==
    /\ (last.op = "MarshalJSON" /\ last.pre \in ValidContents)
           => last.err = NilErr
    /\ (last.op = "UnmarshalWire" /\ wire.from \in ValidContents)
           => (last.err = NilErr /\ Get(b) = Get(wire.from))

\* The empty string was encoded and decoded into a Bool that held "true":
\* it comes back as "unset".
C1_Witness ==
    /\ last.op = "UnmarshalWire"
    /\ wire.from = ""
    /\ last.pre = "true"
    /\ b = "unset"

\* C3: MarshalJSON returns true for "true", false for "false", null for ""
\* and "unset", and an error with no bytes for any other content; a
\* successful encoding is one of true, false, null.
C3_MarshalJSON ==
    last.op = "MarshalJSON" =>
        /\ last.pre = "true" => (last.ret = "true" /\ last.err = NilErr)
        /\ last.pre = "false" => (last.ret = "false" /\ last.err = NilErr)
        /\ last.pre = "" => (last.ret = "null" /\ last.err = NilErr)
        /\ last.pre = "unset" => (last.ret = "null" /\ last.err = NilErr)
        /\ last.pre \notin {"true", "false", "", "unset"}
               => (last.err # NilErr /\ Len(last.ret) = 0)
        /\ last.err = NilErr => last.ret \in {"true", "false", "null"}

\* A content that is none of the four was encoded.
C3_Witness ==
    /\ last.op = "MarshalJSON"
    /\ last.pre = "maybe"
    /\ last.err # NilErr
    /\ last.ret = NilBytes

\* C4: UnmarshalJSON sets "true" for true, "false" for false and "unset"
\* for null, with no error; every other input returns an error.
C4_UnmarshalJSON ==
    IsUnmarshal(last) =>
        /\ last.arg = "true" => (b = "true" /\ last.err = NilErr)
        /\ last.arg = "false" => (b = "false" /\ last.err = NilErr)
        /\ last.arg = "null" => (b = "unset" /\ last.err = NilErr)
        /\ last.arg \notin {"true", "false", "null"} => last.err # NilErr

\* null was decoded into a Bool that held "true".
C4_Witness ==
    /\ last.op = "UnmarshalJSON"
    /\ last.arg = "null"
    /\ last.pre = "true"
    /\ b = "unset"

\* C5: Scan(nil) sets the empty string, a bool sets "true" or "false", an
\* int64 sets "false" for 0 and "true" for any other value, all without an
\* error; any other type returns an error.
C5_Scan ==
    last.op = "Scan" =>
        /\ last.arg.type = "nil" => (b = "" /\ last.err = NilErr)
        /\ last.arg.type = "bool" =>
               /\ last.err = NilErr
               /\ last.arg.val => b = "true"
               /\ ~last.arg.val => b = "false"
        /\ last.arg.type = "int64" =>
               /\ last.err = NilErr
               /\ last.arg.val = 0 => b = "false"
               /\ last.arg.val # 0 => b = "true"
        /\ last.arg.type \notin {"nil", "bool", "int64"} => last.err # NilErr

\* A negative int64 was scanned into a Bool that held "false".
C5_Witness ==
    /\ last.op = "Scan"
    /\ last.arg.type = "int64"
    /\ last.arg.val < 0
    /\ last.pre = "false"
    /\ b = "true"

\* C6: from any content, Get() right after Set(true) yields (true, true),
\* right after Set(false) yields (false, true), right after Clear() yields
\* (false, false); and Get() yields (false, false) for every content other
\* than "true" and "false".
C6_SetClearGet ==
    last.op = "Get" =>
        /\ (last.after.op = "Set" /\ last.after.arg) => last.ret = <<TRUE, TRUE>>
        /\ (last.after.op = "Set" /\ ~last.after.arg) => last.ret = <<FALSE, TRUE>>
        /\ last.after.op = "Clear" => last.ret = <<FALSE, FALSE>>
        /\ last.pre \notin {"true", "false"} => last.ret = <<FALSE, FALSE>>

\* Get() was called right after Set(false) on a Bool with invalid content.
C6_Witness ==
    /\ last.op = "Get"
    /\ last.after.op = "Set"
    /\ ~last.after.arg
    /\ last.after.pre = "maybe"
    /\ last.ret = <<FALSE, TRUE>>

\* C9: a Bool that starts as the zero value and is changed only by Set,
\* Clear, Scan and UnmarshalJSON holds one of "true", "false", "", "unset",
\* and MarshalJSON of it never returns an error.
C9_ContentValid ==
    /\ b \in ValidContents
    /\ last.op = "MarshalJSON" => last.err = NilErr

\* MarshalJSON was called right after an UnmarshalJSON that failed.
C9_Witness ==
    /\ last.op = "MarshalJSON"
    /\ last.after.op = "UnmarshalJSON"
    /\ last.after.err # NilErr
    /\ last.pre = "unset"

\* C10: a Scan or an UnmarshalJSON that returns an error leaves the content
\* as it was, and Get, EqualBool and MarshalJSON never change it.
C10_Frame ==
    /\ (last.op = "Scan" /\ last.err # NilErr) => b = last.pre
    /\ (IsUnmarshal(last) /\ last.err # NilErr) => b = last.pre
    /\ last.op \in {"Get", "EqualBool", "MarshalJSON"} => b = last.pre

\* A Scan of a string failed on a Bool that held "true".
C10_Witness ==
    /\ last.op = "Scan"
    /\ last.arg.type = "string"
    /\ last.err # NilErr
    /\ last.pre = "true"
    /\ b = "true"

----------------------------------------------------------------------------
(* hostinfo: the properties.                                               *)

\* C2: once a call of osVersionWindows has computed and returned a string
\* s, every call that begins afterwards returns s, whatever the system and
\* the other callers do.
C2_CachedForever ==
    (lastRet.s # None /\ lastRet.after) => lastRet.s = firstRet

\* C8: the callers that missed the cache all store the same string: every
\* Store stores what the first Store stored, and each of those callers
\* returned the string the cache holds.
C8_SameString ==
    /\ \A i \in DOMAIN stores : stores[i] = stores[1]
    /\ \A r \in missRets : winVerCache.ok /\ r = winVerCache.v

\* C7: packageTypeWindows returns "choco" whenever the chocolatey path
\* exists, "msi" when it does not and the MSI sentinel is 1, "nsis" when
\* neither holds and the executable path resolves and the uninstaller is
\* beside it, and the empty string otherwise.
C7_Precedence ==
    pkgLast.called =>
        LET choco == ChocoPath \in pkgLast.files
            msi == pkgLast.regMSI.present /\ pkgLast.regMSI.val = 1
            exeKnown == pkgLast.exe.err = NilErr
            nsis == /\ exeKnown
                    /\ \E f \in pkgLast.files :
                           /\ Len(f) = Len(pkgLast.exe.path)
                           /\ f[Len(f)] = "Uninstall-Tailscale.exe"
                           /\ \A i \in 1..(Len(f) - 1) : f[i] = pkgLast.exe.path[i]
        IN  /\ choco => pkgLast.ret = "choco"
            /\ (~choco /\ msi) => pkgLast.ret = "msi"
            /\ (~choco /\ ~msi /\ nsis) => pkgLast.ret = "nsis"
            /\ (~choco /\ ~msi /\ ~nsis) => pkgLast.ret = ""
            /\ (~choco /\ ~msi /\ ~exeKnown) => pkgLast.ret = ""

\* The probe ran with the chocolatey path, the MSI sentinel and the
\* uninstaller all present.
C7_Witness ==
    /\ pkgLast.called
    /\ ChocoPath \in pkgLast.files
    /\ pkgLast.regMSI = [present |-> TRUE, val |-> 1]
    /\ pkgLast.exe.err = NilErr
    /\ Join(Dir(pkgLast.exe.path), "Uninstall-Tailscale.exe") \in pkgLast.files
    /\ pkgLast.ret = "choco"

====
